---- MODULE Spec2Model ----
(***************************************************************************)
(* LFRing: a ring buffer of fixed-size items kept in a LittleFS block file *)
(* (<root>/<namespace>.bin) whose head/tail/item_size/item_num are         *)
(* persisted in an NVS namespace (src/src/LFRing.c).                       *)
(*                                                                         *)
(* The file is modelled at item granularity: slot i of the file is         *)
(* file.data[i+1]; byte offset pos = index * item_size.  A slot that was   *)
(* never written but lies below the end of the file (a gap left by fseek   *)
(* past the end) reads as 0; written items are positive identifiers.       *)
(*                                                                         *)
(* uint32_t values are kept as integers x with -2^31 < x < 2^31 that stand *)
(* for x mod 2^32 (a negative x stands for 2^32 + x): U32Mod and U32Gt     *)
(* compute % and > on the values they stand for.                           *)
(***************************************************************************)
EXTENDS Integers, Sequences, FiniteSets, TLC

\* ------------------------------------------------------------ bounds
MaxItemNum == 4
MaxId == 5
NumTasks == 2
MaxFaults == 1

\* --------------------------------------------------- program constants
LFRB_OK == 0
LFRB_NVS_ERROR == 1
LFRB_LFS_ERROR == 2
LFRB_ROOT_NOT_FOUND_ERROR == 3
LFRB_NFILE_ERROR == 4
\* LFRingWrite returns -LFRB_ENUM_EXCEED, an enumerator LFRing.h does not declare
LFRB_ENUM_EXCEED == 5

\* sizeof(test_data_t): two ints
TestItemSize == 8

ItemSizes == {4, TestItemSize}
ItemNums == 2..MaxItemNum
Nums == 0..MaxItemNum

Min(a, b) == IF a <= b THEN a ELSE b

\* ------------------------------------------------- 32-bit arithmetic
\* 2^32 mod n, from 2^16 mod n
Pow32Mod(n) == ((65536 % n) * (65536 % n)) % n

\* (uint32_t)x % n, for -2^31 < x < 2^31
U32Mod(x, n) == IF x >= 0 THEN x % n ELSE (Pow32Mod(n) + (x % n)) % n

\* (uint32_t)a > (uint32_t)b
U32Gt(a, b) ==
    IF (a < 0) = (b < 0) THEN a > b ELSE a < 0

\* ------------------------------------------------------------- state
VARIABLES
    meta,     \* the ringbuf_meta_t in memory: head, tail, item_size, item_num
    nvs,      \* the NVS namespace: present, head, tail, size, num
    file,     \* the block file: exists, data (one element per slot)
    up,       \* LFRingInit has returned LFRB_OK since the last boot
    lock,     \* meta->lock: 0 when free, else the task holding it
    pc,       \* per task: the place in the operation it runs
    loc,      \* per task: the operation's arguments and locals
    nextId,   \* the last item identifier handed to a producer
    faults,   \* operations so far in which a store or file call failed
    fresh,    \* operations completed since an Init that found no metadata
    last      \* the last completed operation, its arguments, faults, result

vars == <<meta, nvs, file, up, lock, pc, loc, nextId, faults, fresh, last>>

Tasks == 1..NumTasks

\* the device state the operations act on
St(m, n, f) == [meta |-> m, nvs |-> n, file |-> f]

Cur == St(meta, nvs, file)

\* a result: the state left behind, the value returned, the items read
R(s, ret) == [s |-> s, ret |-> ret, out |-> <<>>]

Meta0 == [head |-> 0, tail |-> 0, item_size |-> 0, item_num |-> 0]

Nvs0 == [present |-> FALSE, head |-> 0, tail |-> 0, size |-> 0, num |-> 0]

File0 == [exists |-> FALSE, data |-> <<>>]

\* ---------------------------------------------------------- metadata
save_ringbuf_meta(s, ok) ==
    IF ok
    THEN R([s EXCEPT !.nvs = [present |-> TRUE, head |-> s.meta.head,
                              tail |-> s.meta.tail, size |-> s.meta.item_size,
                              num |-> s.meta.item_num]], LFRB_OK)
    ELSE R(s, -LFRB_NVS_ERROR)

reset_ringbuf_meta(s, itemSize, itemNum, ok) ==
    save_ringbuf_meta([s EXCEPT !.meta = [head |-> 0, tail |-> 0,
                                          item_size |-> itemSize,
                                          item_num |-> itemNum]], ok)

load_ringbuf_meta(s, ok) ==
    IF s.nvs.present /\ ok
    THEN R([s EXCEPT !.meta.head = s.nvs.head, !.meta.tail = s.nvs.tail], LFRB_OK)
    ELSE R(s, -LFRB_NVS_ERROR)

\* an Init that compares the item size only
init_ringbuf_meta_size_only(s, itemSize, itemNum, F) ==
    IF s.nvs.present /\ F.op
    THEN LET s1 == [s EXCEPT !.meta = [head |-> s.nvs.head, tail |-> s.nvs.tail,
                                       item_size |-> s.nvs.size,
                                       item_num |-> s.nvs.num]]
         IN  IF s1.meta.item_size # itemSize
             THEN reset_ringbuf_meta(s1, itemSize, itemNum, F.sv)
             ELSE R(s1, LFRB_OK)
    ELSE reset_ringbuf_meta(s, itemSize, itemNum, F.sv)

\* F = [op, sv]: nvs_open(READONLY) succeeds, the reset's nvs_open(READWRITE) succeeds
init_ringbuf_meta(s, itemSize, itemNum, F) ==
    IF s.nvs.present /\ F.op
    THEN LET s1 == [s EXCEPT !.meta = [head |-> s.nvs.head, tail |-> s.nvs.tail,
                                       item_size |-> s.nvs.size,
                                       item_num |-> s.nvs.num]]
         IN  IF s1.meta.item_size # itemSize \/ s1.meta.item_num # itemNum
             THEN reset_ringbuf_meta(s1, itemSize, itemNum, F.sv)
             ELSE R(s1, LFRB_OK)
    ELSE reset_ringbuf_meta(s, itemSize, itemNum, F.sv)

\* -------------------------------------------------------- block file
reset_ringbuf_lfs(s, ok) ==
    IF ok
    THEN R([s EXCEPT !.file = [exists |-> TRUE, data |-> <<>>]], LFRB_OK)
    ELSE R(s, -LFRB_LFS_ERROR)

\* F = [root, wb]: stat(root) succeeds, fopen(path, "wb") succeeds
init_ringbuf_lfs(s, F) ==
    IF ~F.root THEN R(s, -LFRB_ROOT_NOT_FOUND_ERROR)
    ELSE IF s.meta.head = 0 /\ s.meta.tail = 0 THEN reset_ringbuf_lfs(s, F.wb)
    ELSE R(s, LFRB_OK)

\* fseek(f, pos) and fwrite of items: a seek past the end leaves a gap of zeros
FWrite(data, pos, items) ==
    IF items = <<>> THEN data
    ELSE LET end == pos + Len(items)
             len == IF Len(data) > end THEN Len(data) ELSE end
         IN  [i \in 1..len |->
                 IF i > pos /\ i <= end THEN items[i - pos]
                 ELSE IF i <= Len(data) THEN data[i]
                 ELSE 0]

\* the outcomes of the file calls of ringbuf_write:
\* o1: fopen("rb+") succeeds; after a failure, sv: the reset's nvs_open succeeds,
\* wb: the reset's fopen("wb") succeeds, o2: the second fopen("rb+") succeeds
NoFileFault == [o1 |-> TRUE, sv |-> TRUE, wb |-> TRUE, o2 |-> TRUE]

FileFaults(allow) ==
    {NoFileFault} \cup
    {[o1 |-> FALSE, sv |-> a, wb |-> b, o2 |-> c] : a, b, c \in {x \in BOOLEAN : allow}}

\* whether a call may fail: only TRUE (it succeeds) unless faults are allowed
Oks(allow) == {TRUE} \cup {x \in {FALSE} : allow}

\* the counts fwrite may report for num items
Counts(num, allow) == {x \in 0..num : allow \/ x = num}

\* w: the number of items fwrite reports (w <= num; w < num is a short write)
ringbuf_write(s, data, num, f, w) ==
    LET pos == s.meta.head
        open1 == s.file.exists /\ f.o1
        s1 == IF open1 THEN s
              ELSE reset_ringbuf_lfs(
                       reset_ringbuf_meta(s, s.meta.item_size, s.meta.item_num, f.sv).s,
                       f.wb).s
        open2 == open1 \/ (s1.file.exists /\ f.o2)
        n == Min(w, num)
    IN  IF ~open2 THEN R(s1, -LFRB_NFILE_ERROR)
        ELSE R([s1 EXCEPT !.file.data = FWrite(@, pos, SubSeq(data, 1, n))], n)

\* a ringbuf_read that returns 0 without a reset when fopen fails
ringbuf_read_no_reset(s, num, f) ==
    LET pos == s.meta.tail
        len == Len(s.file.data)
        n == IF len > pos THEN Min(num, len - pos) ELSE 0
    IN  IF ~(s.file.exists /\ f.o1)
        THEN R(s, 0)
        ELSE [s |-> s, ret |-> n, out |-> SubSeq(s.file.data, pos + 1, pos + n)]

\* f: o1: fopen("rb") succeeds; sv, wb: as above
ringbuf_read(s, num, f) ==
    LET pos == s.meta.tail
        len == Len(s.file.data)
        n == IF len > pos THEN Min(num, len - pos) ELSE 0
    IN  IF ~(s.file.exists /\ f.o1)
        THEN R(reset_ringbuf_lfs(
                   reset_ringbuf_meta(s, s.meta.item_size, s.meta.item_num, f.sv).s,
                   f.wb).s, 0)
        ELSE [s |-> s, ret |-> n, out |-> SubSeq(s.file.data, pos + 1, pos + n)]

\* -------------------------------------------------------- user layer
\* a result with the faults the operation met: ldFail, the reload failed;
\* svFail, the final persist failed; ioFail, an fopen failed or fwrite was short
Res(s, ret, out, ldFail, svFail, ioFail) ==
    [s |-> s, ret |-> ret, out |-> out,
     ldFail |-> ldFail, svFail |-> svFail, ioFail |-> ioFail]

NoInitFault == [op |-> TRUE, sv |-> TRUE, root |-> TRUE, wb |-> TRUE]

InitFaults(allow) == [op : Oks(allow), sv : Oks(allow), root : Oks(allow), wb : Oks(allow)]

\* the lock is created whenever init_ringbuf_meta succeeded
LFRingInit(s, itemSize, itemNum, F) ==
    LET r1 == init_ringbuf_meta(s, itemSize, itemNum, F)
        r2 == init_ringbuf_lfs(r1.s, F)
    IN  IF r1.ret < 0 THEN r1 ELSE r2

\* an emptiness test with the comparison inverted
LFRingIsEmptyInverted(s, ok) ==
    LET r == load_ringbuf_meta(s, ok)
    IN  IF r.ret < 0 THEN r
        ELSE R(r.s, IF r.s.meta.tail # r.s.meta.head THEN 1 ELSE 0)

LFRingIsEmpty(s, ok) ==
    LET r == load_ringbuf_meta(s, ok)
    IN  IF r.ret < 0 THEN r
        ELSE R(r.s, IF r.s.meta.tail = r.s.meta.head THEN 1 ELSE 0)

\* a capacity check that rejects nothing
RejectsNothing(m, num) == FALSE

\* a capacity check that lets a request of item_num items through
RejectsAboveItemNum(m, num) == num > m.item_num

\* line 397
Rejects(m, num) == num > m.item_num - 1

\* a branch test that never splits a write
ContiguousAlways(m, num) == TRUE

\* line 406
Contiguous(m, num) == m.item_num - m.head >= num

\* lines 420-422
UsedOf(m) ==
    IF m.head >= m.tail THEN m.head - m.tail
    ELSE m.item_num - m.tail + m.head

\* a head that is advanced without wrapping at item_num
AdvanceHeadNoWrap(m, n) == [m EXCEPT !.head = m.head + n]

\* line 424; n is an int, converted to uint32_t by the addition
AdvanceHead(m, n) == [m EXCEPT !.head = U32Mod(m.head + n, m.item_num)]

\* lines 426-430
Evict(m, used, n) ==
    IF U32Gt(used + n, m.item_num - 1)
    THEN [m EXCEPT !.tail = U32Mod(m.tail + (used + n - m.item_num + 1), m.item_num)]
    ELSE m

\* a tail that is advanced without wrapping at item_num
AdvanceTailNoWrap(m, n) == [m EXCEPT !.tail = m.tail + n]

\* line 467
AdvanceTail(m, n) == [m EXCEPT !.tail = U32Mod(m.tail + n, m.item_num)]

\* F = [ld, f1, w1, f2, w2, sv]: the reload succeeds; the file calls and the
\* fwrite count of the first and of the second ringbuf_write; the persist succeeds
LFRingWrite(s, data, num, F) ==
    LET l == load_ringbuf_meta(s, F.ld)
        s0 == l.s
        one == Contiguous(s0.meta, num)
        write_num == s0.meta.item_num - s0.meta.head
        r1 == IF one THEN ringbuf_write(s0, data, num, F.f1, F.w1)
              ELSE ringbuf_write(s0, SubSeq(data, 1, write_num), write_num, F.f1, F.w1)
        r2 == ringbuf_write([r1.s EXCEPT !.meta.head = 0],
                            SubSeq(data, write_num + 1, num), num - write_num,
                            F.f2, F.w2)
        n == IF one THEN r1.ret ELSE r1.ret + r2.ret
        sw == IF one THEN r1.s ELSE r2.s
        used == UsedOf(sw.meta)
        se == [sw EXCEPT !.meta = Evict(AdvanceHead(sw.meta, n), used, n)]
        sv == save_ringbuf_meta(se, F.sv)
    IN  IF Rejects(s0.meta, num)
        THEN Res(s0, -LFRB_ENUM_EXCEED, <<>>, l.ret < 0, FALSE, FALSE)
        ELSE Res(sv.s, n, <<>>, l.ret < 0, sv.ret < 0,
                 ~F.f1.o1 \/ (~one /\ ~F.f2.o1) \/ n # num)

\* the outcomes the calls of one LFRingWrite(num) can have in state s
WriteFaults(s, num, allow) ==
    UNION { LET m == load_ringbuf_meta(s, ld).s.meta
                k == m.item_num - m.head
            IN  IF Rejects(m, num)
                THEN {[ld |-> ld, f1 |-> NoFileFault, w1 |-> 0,
                       f2 |-> NoFileFault, w2 |-> 0, sv |-> TRUE]}
                ELSE IF Contiguous(m, num)
                THEN {[ld |-> ld, f1 |-> a, w1 |-> x,
                       f2 |-> NoFileFault, w2 |-> 0, sv |-> c] :
                         a \in FileFaults(allow), x \in Counts(num, allow), c \in Oks(allow)}
                ELSE {[ld |-> ld, f1 |-> a, w1 |-> x, f2 |-> b, w2 |-> y, sv |-> c] :
                         a \in FileFaults(allow), x \in Counts(k, allow),
                         b \in FileFaults(allow), y \in Counts(num - k, allow),
                         c \in Oks(allow)}
          : ld \in Oks(allow) }

NoWriteFault(num) ==
    [ld |-> TRUE, f1 |-> NoFileFault, w1 |-> num,
     f2 |-> NoFileFault, w2 |-> num, sv |-> TRUE]

\* F = [ld, f, sv]: the reload succeeds; ringbuf_read's file calls; the persist succeeds
LFRingRead(s, num, F) ==
    LET l == load_ringbuf_meta(s, F.ld)
        s0 == l.s
        r == ringbuf_read(s0, num, F.f)
        st == [r.s EXCEPT !.meta = AdvanceTail(r.s.meta, r.ret)]
        sv == save_ringbuf_meta(st, F.sv)
    IN  IF s0.meta.tail = s0.meta.head
        THEN Res(s0, 0, <<>>, l.ret < 0, FALSE, FALSE)
        ELSE Res(sv.s, r.ret, r.out, l.ret < 0, sv.ret < 0, ~F.f.o1)

ReadFileFaults(allow) ==
    {NoFileFault} \cup
    {[o1 |-> FALSE, sv |-> a, wb |-> b, o2 |-> TRUE] : a, b \in {x \in BOOLEAN : allow}}

ReadFaults(allow) == [ld : Oks(allow), f : ReadFileFaults(allow), sv : Oks(allow)]

NoReadFault == [ld |-> TRUE, f |-> NoFileFault, sv |-> TRUE]

\* ------------------------------------------------- the device, one caller
NoOp ==
    [op |-> "none", num |-> 0, size |-> 0, ret |-> 0, out |-> <<>>,
     preHead |-> 0, preTail |-> 0,
     ldFail |-> FALSE, svFail |-> FALSE, ioFail |-> FALSE]

\* a task outside an operation.  at is the device state the task found when it
\* took the lock and f the outcomes of the file calls of its last
\* ringbuf_write / ringbuf_read (both kept for the observer); n, used,
\* write_num, out are its locals
IdleLoc ==
    [op |-> "none", num |-> 0, data |-> <<>>, n |-> 0, used |-> 0,
     write_num |-> 0, out |-> <<>>, at |-> St(Meta0, Nvs0, File0),
     f |-> NoFileFault]

\* a device that never ran LFRingInit: no namespace, no file, a zeroed global
Init ==
    /\ meta = Meta0
    /\ nvs = Nvs0
    /\ file = File0
    /\ up = FALSE
    /\ lock = 0
    /\ pc = [t \in Tasks |-> "idle"]
    /\ loc = [t \in Tasks |-> IdleLoc]
    /\ nextId = 0
    /\ faults = 0
    /\ fresh = 3
    /\ last = NoOp

\* the operation's effect.  The observer records the operation in the runs in
\* which no call can fail (~flt)
Done(op, num, size, r, flt) ==
    /\ meta' = r.s.meta
    /\ nvs' = r.s.nvs
    /\ file' = r.s.file
    /\ last' = IF ~flt
               THEN [op |-> op, num |-> num, size |-> size,
                     ret |-> r.ret, out |-> r.out,
                     preHead |-> nvs.head, preTail |-> nvs.tail,
                     ldFail |-> r.ldFail, svFail |-> r.svFail, ioFail |-> r.ioFail]
               ELSE last
    /\ faults' = IF r.ldFail \/ r.svFail \/ r.ioFail THEN faults + 1 ELSE faults

\* a call may fail only in MaxFaults operations of a run
MayFail == faults < MaxFaults

\* a (re)boot followed by LFRingInit: memory starts zeroed, the namespace and the
\* file are what the last run left.  flt: store and file calls may fail
BootOp(flt) ==
    \E itemSize \in ItemSizes, itemNum \in ItemNums, F \in InitFaults(flt /\ MayFail) :
        LET r == LFRingInit(St(Meta0, nvs, file), itemSize, itemNum, F)
        IN  /\ Done("init", itemNum, itemSize,
                    Res(r.s, r.ret, <<>>, ~F.op, ~F.sv, ~F.root \/ ~F.wb), flt)
            /\ up' = (r.ret = LFRB_OK)
            /\ fresh' = IF r.ret = LFRB_OK /\ ~nvs.present THEN 0 ELSE 3
            /\ UNCHANGED <<lock, pc, loc, nextId>>

IsEmptyOp(flt) ==
    /\ up
    /\ \E ok \in Oks(flt /\ MayFail) :
        LET r == LFRingIsEmpty(Cur, ok)
        IN  Done("isempty", 0, 0, Res(r.s, r.ret, <<>>, r.ret < 0, FALSE, FALSE), flt)
    /\ fresh' = Min(fresh + 1, 3)
    /\ UNCHANGED <<up, lock, pc, loc, nextId>>

\* the items a producer hands to LFRingWrite(num): fresh identifiers
NewItems(num) == [i \in 1..num |-> nextId + i]

WriteOp(flt) ==
    /\ up
    /\ \E num \in Nums :
        /\ nextId + num <= MaxId
        /\ \E F \in WriteFaults(Cur, num, flt /\ MayFail) :
               Done("write", num, 0, LFRingWrite(Cur, NewItems(num), num, F), flt)
        /\ nextId' = nextId + num
    /\ fresh' = Min(fresh + 1, 3)
    /\ UNCHANGED <<up, lock, pc, loc>>

ReadOp(flt) ==
    /\ up
    /\ \E num \in Nums, F \in ReadFaults(flt /\ MayFail) :
           Done("read", num, 0, LFRingRead(Cur, num, F), flt)
    /\ fresh' = Min(fresh + 1, 3)
    /\ UNCHANGED <<up, lock, pc, loc, nextId>>

\* one caller, every store and file call succeeds
Boot == BootOp(FALSE)

IsEmpty == IsEmptyOp(FALSE)

Write == WriteOp(FALSE)

Read == ReadOp(FALSE)

Next == Boot \/ IsEmpty \/ Write \/ Read

Spec == Init /\ [][Next]_vars

\* one caller, store and file calls may fail
FaultyBoot == BootOp(TRUE)

FaultyIsEmpty == IsEmptyOp(TRUE)

FaultyWrite == WriteOp(TRUE)

FaultyRead == ReadOp(TRUE)

FaultNext == FaultyBoot \/ FaultyIsEmpty \/ FaultyWrite \/ FaultyRead

FaultSpec == Init /\ [][FaultNext]_vars

\* ------------------------------------------------ the device, several tasks
\* Tasks call LFRingWrite, LFRingRead and LFRingIsEmpty on one ringbuf_meta_t;
\* a step is one statement of the operation.  Every store and file call succeeds.

\* a mutex that every xSemaphoreTake gets at once
LockAlwaysFree(l) == TRUE

\* xSemaphoreTake(meta->lock, portMAX_DELAY) returns only when the mutex is free
LockFree(l) == l = 0

\* the tasks between xSemaphoreTake and xSemaphoreGive
InCritical ==
    {t \in Tasks : pc[t] \notin {"idle", "w_wait", "r_wait", "e_head", "e_tail", "e_cmp"}}

\* app_main has run LFRingInit on a blank device and created the tasks
TaskInit ==
    /\ \E itemSize \in ItemSizes, itemNum \in ItemNums :
           LET r == LFRingInit(St(Meta0, Nvs0, File0), itemSize, itemNum, NoInitFault)
           IN  meta = r.s.meta /\ nvs = r.s.nvs /\ file = r.s.file
    /\ up = TRUE
    /\ lock = 0
    /\ pc = [t \in Tasks |-> "idle"]
    /\ loc = [t \in Tasks |-> IdleLoc]
    /\ nextId = 0
    /\ faults = 0
    /\ fresh = 0
    /\ last = NoOp

\* task t moves to place p with locals l
Goto(t, p, l) ==
    /\ pc' = [pc EXCEPT ![t] = p]
    /\ loc' = [loc EXCEPT ![t] = l]

Observer == <<up, nextId, faults, fresh, last>>

\* line 390: task t calls LFRingWrite(meta, data, num) and waits for the mutex.
\* The arguments are first used after the take, where the model draws them
WriteCall(t) ==
    /\ pc[t] = "idle"
    /\ Goto(t, "w_wait", [IdleLoc EXCEPT !.op = "write"])
    /\ UNCHANGED <<meta, nvs, file, lock, Observer>>

\* line 391: xSemaphoreTake returns
WriteTake(t) ==
    /\ pc[t] = "w_wait"
    /\ LockFree(lock)
    /\ lock' = t
    /\ \E num \in Nums :
        /\ nextId + num <= MaxId
        /\ Goto(t, "w_load", [loc[t] EXCEPT !.num = num, !.data = NewItems(num),
                                             !.at = Cur])
        /\ nextId' = nextId + num
    /\ UNCHANGED <<meta, nvs, file, up, faults, fresh, last>>

\* line 394
WriteLoad(t) ==
    /\ pc[t] = "w_load"
    /\ meta' = load_ringbuf_meta(Cur, TRUE).s.meta
    /\ Goto(t, "w_check", loc[t])
    /\ UNCHANGED <<nvs, file, lock, Observer>>

\* lines 397-400, 405: the rejected call goes on to give the mutex back
WriteCheck(t) ==
    /\ pc[t] = "w_check"
    /\ IF Rejects(meta, loc[t].num)
       THEN Goto(t, "w_give", [loc[t] EXCEPT !.n = -LFRB_ENUM_EXCEED])
       ELSE Goto(t, "w_branch", [loc[t] EXCEPT !.n = 0])
    /\ UNCHANGED <<meta, nvs, file, lock, Observer>>

\* line 406
WriteBranch(t) ==
    /\ pc[t] = "w_branch"
    /\ Goto(t, IF Contiguous(meta, loc[t].num) THEN "w_one" ELSE "w_num", loc[t])
    /\ UNCHANGED <<meta, nvs, file, lock, Observer>>

\* line 407
WriteOne(t) ==
    /\ pc[t] = "w_one"
    /\ LET r == ringbuf_write(Cur, loc[t].data, loc[t].num, NoFileFault, loc[t].num)
       IN  /\ file' = r.s.file
           /\ Goto(t, "w_used", [loc[t] EXCEPT !.n = @ + r.ret])
    /\ UNCHANGED <<meta, nvs, lock, Observer>>

\* line 412
WriteNum(t) ==
    /\ pc[t] = "w_num"
    /\ Goto(t, "w_first", [loc[t] EXCEPT !.write_num = meta.item_num - meta.head])
    /\ UNCHANGED <<meta, nvs, file, lock, Observer>>

\* line 413
WriteFirst(t) ==
    /\ pc[t] = "w_first"
    /\ LET k == loc[t].write_num
           r == ringbuf_write(Cur, SubSeq(loc[t].data, 1, k), k, NoFileFault, k)
       IN  /\ file' = r.s.file
           /\ Goto(t, "w_zero", [loc[t] EXCEPT !.n = @ + r.ret])
    /\ UNCHANGED <<meta, nvs, lock, Observer>>

\* line 414
WriteZero(t) ==
    /\ pc[t] = "w_zero"
    /\ meta' = [meta EXCEPT !.head = 0]
    /\ Goto(t, "w_second", loc[t])
    /\ UNCHANGED <<nvs, file, lock, Observer>>

\* line 415
WriteSecond(t) ==
    /\ pc[t] = "w_second"
    /\ LET k == loc[t].write_num
           m == loc[t].num - k
           r == ringbuf_write(Cur, SubSeq(loc[t].data, k + 1, loc[t].num), m,
                              NoFileFault, m)
       IN  /\ file' = r.s.file
           /\ Goto(t, "w_used", [loc[t] EXCEPT !.n = @ + r.ret])
    /\ UNCHANGED <<meta, nvs, lock, Observer>>

\* lines 420-422
WriteUsed(t) ==
    /\ pc[t] = "w_used"
    /\ Goto(t, "w_head", [loc[t] EXCEPT !.used = UsedOf(meta)])
    /\ UNCHANGED <<meta, nvs, file, lock, Observer>>

\* line 424
WriteHead(t) ==
    /\ pc[t] = "w_head"
    /\ meta' = AdvanceHead(meta, loc[t].n)
    /\ Goto(t, "w_evict", loc[t])
    /\ UNCHANGED <<nvs, file, lock, Observer>>

\* lines 426-430
WriteEvict(t) ==
    /\ pc[t] = "w_evict"
    /\ meta' = Evict(meta, loc[t].used, loc[t].n)
    /\ Goto(t, "w_save", loc[t])
    /\ UNCHANGED <<nvs, file, lock, Observer>>

\* line 433
WriteSave(t) ==
    /\ pc[t] = "w_save"
    /\ nvs' = save_ringbuf_meta(Cur, TRUE).s.nvs
    /\ Goto(t, "w_give", loc[t])
    /\ UNCHANGED <<meta, file, lock, Observer>>

\* an LFRingWrite that returns without giving the mutex back
WriteReturnHolding(t) ==
    /\ pc[t] = "w_give"
    /\ Goto(t, "idle", IdleLoc)
    /\ UNCHANGED <<meta, nvs, file, lock, Observer>>

\* lines 398-399 and 435-436
WriteGive(t) ==
    /\ pc[t] = "w_give"
    /\ lock' = 0
    /\ Goto(t, "idle", IdleLoc)
    /\ UNCHANGED <<meta, nvs, file, Observer>>

\* line 451: task t calls LFRingRead(meta, out_data, num) and waits for the mutex
ReadCall(t) ==
    /\ pc[t] = "idle"
    /\ Goto(t, "r_wait", [IdleLoc EXCEPT !.op = "read"])
    /\ UNCHANGED <<meta, nvs, file, lock, Observer>>

\* line 452
ReadTake(t) ==
    /\ pc[t] = "r_wait"
    /\ LockFree(lock)
    /\ lock' = t
    /\ \E num \in Nums :
           Goto(t, "r_load", [loc[t] EXCEPT !.num = num, !.at = Cur])
    /\ UNCHANGED <<meta, nvs, file, Observer>>

\* line 455
ReadLoad(t) ==
    /\ pc[t] = "r_load"
    /\ meta' = load_ringbuf_meta(Cur, TRUE).s.meta
    /\ Goto(t, "r_check", loc[t])
    /\ UNCHANGED <<nvs, file, lock, Observer>>

\* lines 458-461: the call on an empty buffer goes on to give the mutex back
ReadCheck(t) ==
    /\ pc[t] = "r_check"
    /\ Goto(t, IF meta.tail = meta.head THEN "r_give" ELSE "r_read", loc[t])
    /\ UNCHANGED <<meta, nvs, file, lock, Observer>>

\* line 464
ReadItems(t) ==
    /\ pc[t] = "r_read"
    /\ LET r == ringbuf_read(Cur, loc[t].num, NoFileFault)
       IN  Goto(t, "r_tail", [loc[t] EXCEPT !.n = r.ret, !.out = r.out])
    /\ UNCHANGED <<meta, nvs, file, lock, Observer>>

\* line 467
ReadTail(t) ==
    /\ pc[t] = "r_tail"
    /\ meta' = AdvanceTail(meta, loc[t].n)
    /\ Goto(t, "r_save", loc[t])
    /\ UNCHANGED <<nvs, file, lock, Observer>>

\* line 468
ReadSave(t) ==
    /\ pc[t] = "r_save"
    /\ nvs' = save_ringbuf_meta(Cur, TRUE).s.nvs
    /\ Goto(t, "r_give", loc[t])
    /\ UNCHANGED <<meta, file, lock, Observer>>

\* lines 459-460 and 470-471
ReadGive(t) ==
    /\ pc[t] = "r_give"
    /\ lock' = 0
    /\ Goto(t, "idle", IdleLoc)
    /\ UNCHANGED <<meta, nvs, file, Observer>>

\* line 369: task t calls LFRingIsEmpty(meta); no mutex is taken
EmptyCall(t) ==
    /\ pc[t] = "idle"
    /\ Goto(t, "e_head", [IdleLoc EXCEPT !.op = "isempty"])
    /\ UNCHANGED <<meta, nvs, file, lock, Observer>>

\* line 145, in the load_ringbuf_meta of line 370
EmptyHead(t) ==
    /\ pc[t] = "e_head"
    /\ meta' = [meta EXCEPT !.head = nvs.head]
    /\ Goto(t, "e_tail", loc[t])
    /\ UNCHANGED <<nvs, file, lock, Observer>>

\* line 146
EmptyTail(t) ==
    /\ pc[t] = "e_tail"
    /\ meta' = [meta EXCEPT !.tail = nvs.tail]
    /\ Goto(t, "e_cmp", loc[t])
    /\ UNCHANGED <<nvs, file, lock, Observer>>

\* line 372
EmptyCmp(t) ==
    /\ pc[t] = "e_cmp"
    /\ Goto(t, "idle", IdleLoc)
    /\ UNCHANGED <<meta, nvs, file, lock, Observer>>

WriteStep(t) ==
    \/ WriteCall(t) \/ WriteTake(t) \/ WriteLoad(t) \/ WriteCheck(t)
    \/ WriteBranch(t) \/ WriteOne(t) \/ WriteNum(t) \/ WriteFirst(t)
    \/ WriteZero(t) \/ WriteSecond(t) \/ WriteUsed(t) \/ WriteHead(t)
    \/ WriteEvict(t) \/ WriteSave(t) \/ WriteGive(t)

ReadStep(t) ==
    \/ ReadCall(t) \/ ReadTake(t) \/ ReadLoad(t) \/ ReadCheck(t)
    \/ ReadItems(t) \/ ReadTail(t) \/ ReadSave(t) \/ ReadGive(t)

EmptyStep(t) ==
    \/ EmptyCall(t) \/ EmptyHead(t) \/ EmptyTail(t) \/ EmptyCmp(t)

\* producers and consumers only
TaskNext == \E t \in Tasks : WriteStep(t) \/ ReadStep(t)

TaskSpec == TaskInit /\ [][TaskNext]_vars

\* producers, consumers and tasks that poll LFRingIsEmpty
RaceNext == \E t \in Tasks : WriteStep(t) \/ ReadStep(t) \/ EmptyStep(t)

RaceSpec == TaskInit /\ [][RaceNext]_vars

\* the k items an earlier run left in the buffer, numbered below the new ones
OldItems(k) == [i \in 1..k |-> i - k - 1]

\* app_main has run LFRingInit on a device that an earlier run of the example
\* initialised and wrote k items to, and created the tasks
InUseInit ==
    /\ \E itemNum \in ItemNums, k \in 0..(MaxItemNum - 1) :
           LET r0 == LFRingInit(St(Meta0, Nvs0, File0), TestItemSize, itemNum,
                                NoInitFault)
               w  == LFRingWrite(r0.s, OldItems(k), k, NoWriteFault(k))
               r  == LFRingInit(St(Meta0, w.s.nvs, w.s.file), TestItemSize, itemNum,
                                NoInitFault)
           IN  /\ w.ret = k
               /\ meta = r.s.meta /\ nvs = r.s.nvs /\ file = r.s.file
    /\ up = TRUE
    /\ lock = 0
    /\ pc = [t \in Tasks |-> "idle"]
    /\ loc = [t \in Tasks |-> IdleLoc]
    /\ nextId = 0
    /\ faults = 0
    /\ fresh = 0
    /\ last = NoOp

\* producers, consumers and pollers on a buffer that is in use
InUseSpec == InUseInit /\ [][RaceNext]_vars

\* ------------------------------ several tasks, file calls that may fail
\* the ringbuf_write of k items by task t, with file calls f, left result r;
\* the task adds r.ret to n and goes to place p
FileStep(t, p, r, f, k) ==
    /\ meta' = r.s.meta
    /\ nvs' = r.s.nvs
    /\ file' = r.s.file
    /\ faults' = IF ~f.o1 \/ r.ret # k THEN faults + 1 ELSE faults
    /\ Goto(t, p, [loc[t] EXCEPT !.n = @ + r.ret, !.f = f])
    /\ UNCHANGED <<lock, up, nextId, fresh, last>>

\* line 407, the fopen calls may fail and fwrite may be short
FaultyWriteOne(t) ==
    /\ pc[t] = "w_one"
    /\ \E f \in FileFaults(MayFail), w \in Counts(loc[t].num, MayFail) :
           FileStep(t, "w_used", ringbuf_write(Cur, loc[t].data, loc[t].num, f, w), f,
                    loc[t].num)

\* line 413
FaultyWriteFirst(t) ==
    /\ pc[t] = "w_first"
    /\ LET k == loc[t].write_num
       IN  \E f \in FileFaults(MayFail), w \in Counts(k, MayFail) :
               FileStep(t, "w_zero",
                        ringbuf_write(Cur, SubSeq(loc[t].data, 1, k), k, f, w), f, k)

\* line 415
FaultyWriteSecond(t) ==
    /\ pc[t] = "w_second"
    /\ LET k == loc[t].write_num
           m == loc[t].num - k
       IN  \E f \in FileFaults(MayFail), w \in Counts(m, MayFail) :
               FileStep(t, "w_used",
                        ringbuf_write(Cur, SubSeq(loc[t].data, k + 1, loc[t].num), m, f, w),
                        f, m)

\* line 464, the fopen may fail
FaultyReadItems(t) ==
    /\ pc[t] = "r_read"
    /\ \E f \in ReadFileFaults(MayFail) :
           LET r == ringbuf_read(Cur, loc[t].num, f)
           IN  /\ meta' = r.s.meta
               /\ nvs' = r.s.nvs
               /\ file' = r.s.file
               /\ faults' = IF ~f.o1 THEN faults + 1 ELSE faults
               /\ Goto(t, "r_tail", [loc[t] EXCEPT !.n = r.ret, !.out = r.out,
                                                   !.f = f])
    /\ UNCHANGED <<lock, up, nextId, fresh, last>>

FaultyWriteStep(t) ==
    \/ WriteCall(t) \/ WriteTake(t) \/ WriteLoad(t) \/ WriteCheck(t)
    \/ WriteBranch(t) \/ FaultyWriteOne(t) \/ WriteNum(t) \/ FaultyWriteFirst(t)
    \/ WriteZero(t) \/ FaultyWriteSecond(t) \/ WriteUsed(t) \/ WriteHead(t)
    \/ WriteEvict(t) \/ WriteSave(t) \/ WriteGive(t)

FaultyReadStep(t) ==
    \/ ReadCall(t) \/ ReadTake(t) \/ ReadLoad(t) \/ ReadCheck(t)
    \/ FaultyReadItems(t) \/ ReadTail(t) \/ ReadSave(t) \/ ReadGive(t)

\* the steps of task t inside an operation, the lock take excepted
Run(t) ==
    \/ WriteLoad(t) \/ WriteCheck(t) \/ WriteBranch(t) \/ FaultyWriteOne(t)
    \/ WriteNum(t) \/ FaultyWriteFirst(t) \/ WriteZero(t) \/ FaultyWriteSecond(t)
    \/ WriteUsed(t) \/ WriteHead(t) \/ WriteEvict(t) \/ WriteSave(t) \/ WriteGive(t)
    \/ ReadLoad(t) \/ ReadCheck(t) \/ FaultyReadItems(t) \/ ReadTail(t)
    \/ ReadSave(t) \/ ReadGive(t)

FaultyTaskNext == \E t \in Tasks : FaultyWriteStep(t) \/ FaultyReadStep(t)

\* the scheduler runs every ready task again and again, and a task blocked in
\* xSemaphoreTake gets the mutex when it is given again and again
Fairness ==
    \A t \in Tasks :
        /\ WF_vars(Run(t))
        /\ SF_vars(WriteTake(t))
        /\ SF_vars(ReadTake(t))

\* app_main of the example: items are test_data_t records
FaultyTaskInit == TaskInit /\ meta.item_size = TestItemSize

FaultyTaskSpec == FaultyTaskInit /\ [][FaultyTaskNext]_vars /\ Fairness

\* producers whose file calls succeed, consumers whose fopen may fail
ReadFaultNext == \E t \in Tasks : WriteStep(t) \/ FaultyReadStep(t)

ReadFaultSpec == FaultyTaskInit /\ [][ReadFaultNext]_vars

\* ------------------------------------------------------------ claims
\* what a consumer gets by calling LFRingRead(chunk) until want items have been
\* returned or a call returns 0 (every store and file call succeeds)
RECURSIVE ReadBack(_, _, _, _)
ReadBack(s, want, chunk, fuel) ==
    IF want <= 0 \/ fuel = 0 THEN <<>>
    ELSE LET r == LFRingRead(s, Min(chunk, want), NoReadFault)
         IN  IF r.ret <= 0 THEN <<>>
             ELSE r.out \o ReadBack(r.s, want - r.ret, chunk, fuel - 1)

\* ------------------------------------------- one caller, power may be lost
\* power is lost in an accepted LFRingWrite(num) after its ringbuf_write calls
\* (lines 407, 413-415) and before save_ringbuf_meta (line 433): the file is
\* written, the namespace is not, memory is gone.  The observer keeps what a
\* consumer reading one item at a time would have got before the write
PowerLoss ==
    /\ up
    /\ \E num \in Nums :
        /\ nextId + num <= MaxId
        /\ ~Rejects(load_ringbuf_meta(Cur, TRUE).s.meta, num)
        /\ file' = LFRingWrite(Cur, NewItems(num), num, NoWriteFault(num)).s.file
        /\ last' = [NoOp EXCEPT !.op = "crash", !.num = num,
                                !.out = ReadBack(Cur, nvs.num, 1, nvs.num),
                                !.preHead = nvs.head, !.preTail = nvs.tail]
        /\ nextId' = nextId + num
    /\ meta' = Meta0
    /\ up' = FALSE
    /\ fresh' = 3
    /\ UNCHANGED <<nvs, lock, pc, loc, faults>>

CrashNext == Boot \/ IsEmpty \/ Write \/ Read \/ PowerLoss

CrashSpec == Init /\ [][CrashNext]_vars

\* used = (head - tail + N) mod N
Used(h, t, n) == (h - t + n) % n

\* the identifiers a..b in order
Ids(a, b) == [i \in 1..(b - a + 1) |-> a + i - 1]

\* the last completed operation was an LFRingWrite that stored all its num items
FullWrite ==
    /\ up
    /\ last.op = "write"
    /\ last.num >= 1
    /\ last.ret = last.num

\* C1: FIFO round trip.  After an LFRingWrite of k items (1 <= k <= N-1) into
\* an empty buffer (head = tail at any index) that returned k, reading until k
\* items have been returned (in one call of k, or in k calls of 1) yields the k
\* items in the order they were written.
C1_RoundTrip ==
    (FullWrite /\ last.preHead = last.preTail)
        => /\ ReadBack(Cur, last.num, last.num, last.num) = Ids(nextId - last.num + 1, nextId)
           /\ ReadBack(Cur, last.num, 1, last.num) = Ids(nextId - last.num + 1, nextId)

\* C2: overflow eviction.  From a freshly initialised buffer, after a write of
\* N-1 items and then a write of E items (1 <= E < N-1), used = N-1 and a full
\* drain returns the last N-1 items written, in write order.
C2_OverflowEviction ==
    (/\ FullWrite
     /\ fresh = 2
     /\ last.preHead = meta.item_num - 1
     /\ last.preTail = 0
     /\ last.num < meta.item_num - 1)
        => /\ Used(nvs.head, nvs.tail, nvs.num) = nvs.num - 1
           /\ ReadBack(Cur, nvs.num, 1, nvs.num) = Ids(nextId - (nvs.num - 1) + 1, nextId)

\* head and tail are slot indices, so used <= N-1
InRange(h, t, n) ==
    /\ h \in 0..(n - 1)
    /\ t \in 0..(n - 1)
    /\ Used(h, t, n) <= n - 1

\* C3: index invariant.  After Init and after any sequence of operations,
\* rejected writes, short writes, failed opens and resets included, the head and
\* the tail in memory and the persisted ones are indices in [0, N).
C3_IndexInvariant ==
    /\ up => InRange(meta.head, meta.tail, meta.item_num)
    /\ nvs.present => InRange(nvs.head, nvs.tail, nvs.num)

\* a failed operation left indices in memory that were never persisted, the tail
\* above the head
C3_Witness ==
    /\ up
    /\ faults > 0
    /\ nvs.head # meta.head
    /\ meta.tail > meta.head
    /\ meta.head > 0

\* C4 as stated: every LFRingWrite with count >= N-1 fails with the
\* capacity-exceeded error and leaves head and tail unchanged.
C4_RejectsFromCapacity ==
    (up /\ last.op = "write" /\ last.num >= meta.item_num - 1)
        => /\ last.ret = -LFRB_ENUM_EXCEED
           /\ nvs.head = last.preHead
           /\ nvs.tail = last.preTail

\* C4 amended: every LFRingWrite with count > N-1 fails with the
\* capacity-exceeded error and leaves the persisted (and in-memory) head and
\* tail unchanged; a request of exactly N-1 items is accepted.
C4_RejectsAboveCapacity ==
    (up /\ last.op = "write" /\ last.num > meta.item_num - 1)
        => /\ last.ret = -LFRB_ENUM_EXCEED
           /\ nvs.head = last.preHead /\ meta.head = last.preHead
           /\ nvs.tail = last.preTail /\ meta.tail = last.preTail

\* a request above the usable capacity was rejected on a buffer holding items
C4_Witness ==
    /\ up
    /\ last.op = "write"
    /\ last.num > meta.item_num - 1
    /\ last.ret = -LFRB_ENUM_EXCEED
    /\ nvs.head # nvs.tail

\* what the call of task t does when it runs alone from the state it found at
\* the lock take
Alone(t) ==
    IF loc[t].op = "write"
    THEN LFRingWrite(loc[t].at, loc[t].data, loc[t].num, NoWriteFault(loc[t].num))
    ELSE LFRingRead(loc[t].at, loc[t].num, NoReadFault)

\* task t is about to give the lock back
AtGive(t) == pc[t] \in {"w_give", "r_give"}

\* the call of task t left the store and the file, and got the result, of Alone(t)
AsAlone(t) ==
    /\ nvs = Alone(t).s.nvs
    /\ file = Alone(t).s.file
    /\ loc[t].n = Alone(t).ret
    /\ loc[t].out = Alone(t).out

\* C5: mutual exclusion and serialisation.  With tasks calling LFRingWrite and
\* LFRingRead concurrently, at most one task is between the lock take and the
\* lock give and it is the task the lock names; nothing but the holder changes
\* the store or the file, so each call ends with the persisted head/tail, the
\* file and the result the whole operation gives when run alone on the state it
\* found: the outcome is that of the calls run one after another in the order of
\* their lock takes.
C5_Serialised ==
    /\ Cardinality(InCritical) <= 1
    /\ \A t \in Tasks : (t \in InCritical) <=> (lock = t)
    /\ lock = 0 => (meta.head = nvs.head /\ meta.tail = nvs.tail)
    /\ \A t \in Tasks :
           /\ pc[t] \in {"w_load", "r_load"} => (loc[t].at.nvs = nvs /\ loc[t].at.file = file)
           /\ AtGive(t) => (AsAlone(t) /\ meta = Alone(t).s.meta)

\* a producer finished a write that wrapped around the end of the file, after a
\* consumer had moved the tail, while a consumer waits for the lock
C5_Witness ==
    \E t, u \in Tasks :
        /\ pc[t] = "w_give"
        /\ pc[u] = "r_wait"
        /\ loc[t].n >= 2
        /\ loc[t].write_num >= 1
        /\ loc[t].at.nvs.tail # 0

\* C6: LFRingIsEmpty running beside an LFRingWrite or LFRingRead in flight does
\* not change what that operation does: the operation persists the head and
\* tail, leaves the file and returns the result it gives without the
\* LFRingIsEmpty call.
C6_IsEmptyHarmless ==
    \A t \in Tasks :
        (lock = t /\ AtGive(t)) =>
            /\ nvs.head = Alone(t).s.nvs.head
            /\ nvs.tail = Alone(t).s.nvs.tail
            /\ file.data = Alone(t).s.file.data
            /\ loc[t].n = Alone(t).ret
            /\ loc[t].out = Alone(t).out

\* C7: fresh start.  After an LFRingInit that succeeds with no persisted
\* metadata, the persisted head and tail are 0, LFRingIsEmpty returns 1, and
\* LFRingRead returns 0 and changes neither head, tail nor the block file.
C7_FreshStart ==
    /\ (up /\ fresh = 0)
        => /\ nvs.present /\ nvs.head = 0 /\ nvs.tail = 0
           /\ LFRingIsEmpty(Cur, TRUE).ret = 1
           /\ \A num \in Nums, F \in ReadFaults(TRUE) :
                  LET r == LFRingRead(Cur, num, F)
                  IN  r.ret = 0 /\ r.out = <<>> /\ r.s = Cur
    /\ (up /\ fresh = 1 /\ last.op = "isempty") => last.ret = 1
    /\ (up /\ fresh = 1 /\ last.op = "read")
        => /\ last.ret = 0
           /\ nvs.head = 0 /\ nvs.tail = 0 /\ meta.head = 0 /\ meta.tail = 0
           /\ file = [exists |-> TRUE, data |-> <<>>]

\* the first operation after a fresh Init was an LFRingRead of at least one item
C7_Witness ==
    /\ up
    /\ fresh = 1
    /\ last.op = "read"
    /\ last.num >= 1
    /\ last.ret = 0

\* C8: re-Init.  In any state with persisted metadata, an LFRingInit (after a
\* reboot) that opens the store and is given the persisted item_size and
\* item_num leaves the persisted head and tail as they were; one that succeeds
\* with another item_size or item_num leaves head = 0, tail = 0 persisted and an
\* empty block file.
C8_ReInit ==
    nvs.present =>
        \A itemSize \in ItemSizes, itemNum \in ItemNums, F \in InitFaults(TRUE) :
            LET r == LFRingInit(St(Meta0, nvs, file), itemSize, itemNum, F)
                same == itemSize = nvs.size /\ itemNum = nvs.num
            IN  /\ (same /\ F.op)
                    => r.s.nvs.head = nvs.head /\ r.s.nvs.tail = nvs.tail
                /\ (~same /\ r.ret = LFRB_OK)
                    => /\ r.s.nvs.head = 0 /\ r.s.nvs.tail = 0
                       /\ r.s.nvs.size = itemSize /\ r.s.nvs.num = itemNum
                       /\ r.s.file = [exists |-> TRUE, data |-> <<>>]

\* a re-Init with the persisted configuration found and kept a buffer whose head
\* and tail had both moved
C8_Witness ==
    /\ up
    /\ last.op = "init"
    /\ last.ret = LFRB_OK
    /\ last.preHead # 0 /\ last.preTail # 0 /\ last.preHead # last.preTail
    /\ nvs.head = last.preHead /\ nvs.tail = last.preTail
    /\ file.data # <<>>

\* C9: errors are returned as values.  When the metadata store cannot be opened
\* during an operation (the reload at its start, the persist at its end), the
\* operation returns an error (a negative result), not a success count.
C9_ErrorsReturned ==
    up =>
        /\ \A ok \in BOOLEAN :
               LET r == LFRingIsEmpty(Cur, ok) IN ~ok => r.ret < 0
        /\ \A num \in Nums, F \in ReadFaults(TRUE) :
               LET r == LFRingRead(Cur, num, F)
               IN  (r.ldFail \/ r.svFail) => r.ret < 0
        /\ \A num \in Nums :
               \A F \in WriteFaults(Cur, num, TRUE) :
                   LET r == LFRingWrite(Cur, NewItems(num), num, F)
                   IN  (r.ldFail \/ r.svFail) => r.ret < 0

\* the last completed operation was an LFRingRead on a non-empty buffer
ReadSome ==
    /\ up
    /\ last.op = "read"
    /\ last.preHead # last.preTail

\* C10: read result and tail advance.  An LFRingRead on a non-empty buffer that
\* returns n items returns the contents of slots tail .. tail+n-1 in order, with
\* n <= N - tail, and leaves tail = (tail + n) mod N persisted, head unchanged.
C10_ReadResult ==
    ReadSome =>
        /\ last.ret = Len(last.out)
        /\ last.ret <= last.num
        /\ last.ret <= nvs.num - last.preTail
        /\ last.out = SubSeq(file.data, last.preTail + 1, last.preTail + last.ret)
        /\ nvs.tail = (last.preTail + last.ret) % nvs.num
        /\ nvs.head = last.preHead

\* a read that reached the last slot of the file and wrapped the tail to 0
C10_Witness ==
    /\ ReadSome
    /\ last.ret >= 2
    /\ last.preTail # 0
    /\ nvs.tail = 0

\* the last completed operation was an LFRingWrite that was not rejected
AcceptedWrite ==
    /\ up
    /\ last.op = "write"
    /\ last.ret >= 0

\* C11: write metadata transition.  After an accepted LFRingWrite that returned
\* written >= 0, with head0/tail0 the values loaded at its start and
\* used_before = (head0 - tail0 + N) mod N, the persisted head is
\* (head0 + written) mod N and the persisted tail is
\* (tail0 + max(0, used_before + written - (N-1))) mod N, for a contiguous write
\* and for a write split across the end of the file.
C11_WriteTransition ==
    AcceptedWrite =>
        LET N == nvs.num
            used_before == Used(last.preHead, last.preTail, N)
            written == last.ret
            evicted == IF used_before + written > N - 1
                       THEN used_before + written - (N - 1) ELSE 0
        IN  /\ nvs.head = (last.preHead + written) % N
            /\ nvs.tail = (last.preTail + evicted) % N

\* the content of slot i of a block file, -1 when the file ends before it
SlotOf(data, i) == IF i < Len(data) THEN data[i + 1] ELSE -1

\* C12: wraparound placement.  An accepted LFRingWrite of num items, with head0
\* the head loaded at its start, stores item i in slot (head0 + i) mod N (one
\* block at head0 when num <= N - head0, else N - head0 items up to slot N-1 and
\* the rest from slot 0) and modifies no other slot of the block file.
C12_Placement ==
    up =>
        \A num \in Nums :
            LET s0 == load_ringbuf_meta(Cur, TRUE).s
                N == s0.meta.item_num
                head0 == s0.meta.head
                data == NewItems(num)
                r == LFRingWrite(Cur, data, num, NoWriteFault(num))
                slots == {(head0 + i) % N : i \in 0..(num - 1)}
                len == IF Len(r.s.file.data) > Len(file.data)
                       THEN Len(r.s.file.data) ELSE Len(file.data)
            IN  ~Rejects(s0.meta, num) =>
                    /\ r.ret = num
                    /\ \A i \in 0..(num - 1) :
                           SlotOf(r.s.file.data, (head0 + i) % N) = data[i + 1]
                    /\ \A j \in 0..(len - 1) :
                           j \notin slots => SlotOf(r.s.file.data, j) = SlotOf(file.data, j)

\* a write of at least two items was split across the end of the file: its
\* first item is in the slot the head pointed to, its last item in a slot
\* before it
C12_Witness ==
    /\ AcceptedWrite
    /\ last.num >= 2
    /\ last.ret = last.num
    /\ last.preHead + last.num > nvs.num
    /\ SlotOf(file.data, last.preHead) = nextId - last.num + 1
    /\ SlotOf(file.data, (last.preHead + last.num - 1) % nvs.num) = nextId

\* task t is about to give the lock back after its LFRingWrite was rejected
RejectedAtGive(t) ==
    /\ pc[t] = "w_give"
    /\ loc[t].n = -LFRB_ENUM_EXCEED

\* at the end of every LFRingWrite: it was rejected iff num > N-1, and a
\* rejected call holds the lock and has left the store and the file as it found
\* them
RejectFrame ==
    \A t \in Tasks :
        pc[t] = "w_give" =>
            /\ RejectedAtGive(t) <=> (loc[t].num > meta.item_num - 1)
            /\ RejectedAtGive(t) =>
                   (lock = t /\ nvs = loc[t].at.nvs /\ file = loc[t].at.file)

\* the step a rejected LFRingWrite takes next gives the lock back and returns
RejectRelease ==
    \A t \in Tasks :
        (RejectedAtGive(t) /\ pc'[t] # pc[t])
            => (lock' = 0 /\ pc'[t] = "idle" /\ nvs' = nvs /\ file' = file)

\* C13: rejection threshold and frame.  LFRingWrite rejects a request iff
\* num > N-1 (a request of exactly N-1 items is accepted); a rejected write
\* leaves the persisted head/tail and the block file unchanged and gives the
\* lock back, so that later calls can take it.
C13_RejectThreshold == []RejectFrame /\ [][RejectRelease]_vars

\* a write was rejected on a non-empty buffer while another task waits for the
\* lock
C13_Witness ==
    \E t, u \in Tasks :
        /\ RejectedAtGive(t)
        /\ pc[u] \in {"w_wait", "r_wait"}
        /\ nvs.head # nvs.tail

\* the file calls f of one ringbuf_write: fopen fails, and fails again after
\* the reset, whose nvs_open succeeds
FileLost(f) == ~f.o1 /\ ~f.o2 /\ f.sv

\* C14: persistent file failure in Write.  When the block file cannot be opened
\* and still cannot be opened after the reset-and-retry (the metadata store
\* working), an accepted LFRingWrite returns a negative result and leaves
\* head = 0, tail = 0 in memory and persisted: the error code is not added into
\* head, tail or the used/eviction arithmetic.
C14_PersistentFailure ==
    up =>
        \A num \in Nums :
            \A F \in WriteFaults(Cur, num, TRUE) :
                LET m == load_ringbuf_meta(Cur, F.ld).s.meta
                    r == LFRingWrite(Cur, NewItems(num), num, F)
                    lost == /\ F.ld /\ F.sv
                            /\ FileLost(F.f1)
                            /\ Contiguous(m, num) \/ FileLost(F.f2)
                IN  (~Rejects(m, num) /\ lost) =>
                        /\ r.ret < 0
                        /\ r.s.meta.head = 0 /\ r.s.meta.tail = 0
                        /\ r.s.nvs.head = 0 /\ r.s.nvs.tail = 0

\* the file calls of a ringbuf_write whose first fopen fails and whose reset and
\* retry succeed
Recovered == [o1 |-> FALSE, sv |-> TRUE, wb |-> TRUE, o2 |-> TRUE]

\* C15: successful recovery in Write.  When the block file cannot be opened at
\* the start of an accepted LFRingWrite of num items (with any prior head/tail)
\* and the retry after the reset succeeds, the buffer then holds exactly the
\* written items: tail = 0, head = written, the items are in slots
\* 0..written-1, and a following LFRingRead returns them in order.
C15_Recovery ==
    up =>
        \A num \in 1..MaxItemNum :
            LET m == load_ringbuf_meta(Cur, TRUE).s.meta
                data == NewItems(num)
                r == LFRingWrite(Cur, data, num, [NoWriteFault(num) EXCEPT !.f1 = Recovered])
            IN  ~Rejects(m, num) =>
                    /\ r.ret = num
                    /\ r.s.nvs.tail = 0 /\ r.s.nvs.head = r.ret
                    /\ r.s.file.data = data
                    /\ ReadBack(r.s, num, num, num) = data

\* task t is about to give the lock back after an LFRingRead whose fopen failed
\* and whose reset could recreate the file
ReadFailedAtGive(t) ==
    /\ pc[t] = "r_give"
    /\ ~loc[t].f.o1
    /\ loc[t].f.wb

\* such a call returns 0 and leaves head = 0, tail = 0 persisted and an empty
\* file, on which LFRingIsEmpty returns 1
ReadResetDone ==
    \A t \in Tasks :
        ReadFailedAtGive(t) =>
            /\ loc[t].at.nvs.head # loc[t].at.nvs.tail
            /\ loc[t].n = 0 /\ loc[t].out = <<>>
            /\ nvs.head = 0 /\ nvs.tail = 0
            /\ file = [exists |-> TRUE, data |-> <<>>]
            /\ LFRingIsEmpty(Cur, TRUE).ret = 1
            /\ lock = t

\* its next step gives the lock back and returns, changing nothing else
ReadResetRelease ==
    \A t \in Tasks :
        (ReadFailedAtGive(t) /\ pc'[t] # pc[t])
            => (lock' = 0 /\ pc'[t] = "idle" /\ nvs' = nvs /\ file' = file)

\* C16: read failure recovery.  When the block file cannot be opened during an
\* LFRingRead on a non-empty buffer, the call returns 0 after a full reset:
\* head = 0, tail = 0 are persisted, the block file exists and is empty,
\* LFRingIsEmpty returns 1, and the lock is given back.
C16_ReadRecovery == []ReadResetDone /\ [][ReadResetRelease]_vars

\* a read failed to open a file that held items, while another task waits
C16_Witness ==
    \E t, u \in Tasks :
        /\ ReadFailedAtGive(t)
        /\ loc[t].num >= 1
        /\ loc[t].at.file.data # <<>>
        /\ pc[u] \in {"w_wait", "r_wait"}

\* the lock names the one task between take and give, and no other
LockHeld == \A t \in Tasks : (t \in InCritical) <=> (lock = t)

\* C17: lock release and completion.  Every LFRingWrite and LFRingRead gives the
\* lock back on every return path (capacity rejection, empty buffer, file
\* failure, short I/O, success); under fair scheduling every task blocked on the
\* lock acquires it and every started operation returns.
C17_Completion ==
    /\ []LockHeld
    /\ \A t \in Tasks : (pc[t] # "idle") ~> (pc[t] = "idle")

\* a write whose file could not be opened is about to return its error while
\* another task is blocked on the lock
C17_Witness ==
    \E t, u \in Tasks :
        /\ pc[t] = "w_give"
        /\ ~loc[t].f.o1
        /\ loc[t].n < 0
        /\ lock = t
        /\ pc[u] \in {"w_wait", "r_wait"}

\* C18: LFRingRead never consumes more than is stored.  For any requested
\* count, the number of items a read returns is at most
\* used = (head - tail + N) mod N at the start of the call, so the tail does not
\* move past the head.
C18_ReadBounded ==
    ReadSome =>
        /\ last.ret <= Used(last.preHead, last.preTail, nvs.num)
        /\ Used(nvs.head, nvs.tail, nvs.num)
               = Used(last.preHead, last.preTail, nvs.num) - last.ret

\* a consumer calls LFRingRead(count) until the persisted head and tail are equal
\* or fuel calls were made: the number of items returned, and whether the
\* buffer got empty
RECURSIVE Drain(_, _, _)
Drain(s, count, fuel) ==
    IF s.nvs.head = s.nvs.tail THEN [total |-> 0, empty |-> TRUE]
    ELSE IF fuel = 0 THEN [total |-> 0, empty |-> FALSE]
    ELSE LET r == LFRingRead(s, count, NoReadFault)
             d == Drain(r.s, count, fuel - 1)
         IN  [total |-> r.ret + d.total, empty |-> d.empty]

\* C19: draining terminates.  From any reachable non-empty state, with no
\* writes in between and a readable file, calling LFRingRead with a fixed
\* count >= 1 again and again reaches head = tail (within N calls, each call
\* of a draining consumer returning at least one item), and the items returned
\* by then number used = (head - tail + N) mod N at the start of the drain.
C19_DrainTerminates ==
    (up /\ nvs.head # nvs.tail) =>
        \A count \in 1..MaxItemNum :
            LET d == Drain(Cur, count, nvs.num)
            IN  /\ d.empty
                /\ d.total = Used(nvs.head, nvs.tail, nvs.num)

\* C20: crash before persist.  When power is lost during an LFRingWrite after
\* the file writes and before the metadata is persisted, then after the reboot
\* and an LFRingInit with the same configuration the persisted head and tail
\* are those from before the write, and a drain returns the items that were in
\* the buffer before the write, in their order.
C20_CrashBeforePersist ==
    last.op = "crash" =>
        LET r == LFRingInit(St(Meta0, nvs, file), nvs.size, nvs.num, NoInitFault)
        IN  /\ r.ret = LFRB_OK
            /\ r.s.nvs.head = last.preHead
            /\ r.s.nvs.tail = last.preTail
            /\ ReadBack(r.s, nvs.num, 1, nvs.num) = last.out

\* C21: bounded block file.  Under every interleaving of LFRingWrite,
\* LFRingRead and LFRingIsEmpty calls no item is written to a slot index >= N:
\* the block file never holds more than item_num slots.
C21_BoundedFile == file.exists => Len(file.data) <= meta.item_num

====
